---- MODULE Spec2Model ----
(***************************************************************************)
(* Playfair cipher (src/src/playfair.cpp): the PlayfairCipher object with  *)
(* its two fields cipherGrid and processedText, and the steps of process() *)
(* (buildCipherGrid, normalizeAndPrepareText, transformDigraphPairs,       *)
(* printFormattedOutput).  Characters are their ASCII codes, strings are   *)
(* sequences of codes.                                                     *)
(***************************************************************************)
EXTENDS Integers, Sequences, FiniteSets, TLC

VARIABLES pc, encryptionKey, inputText, shouldMapItoJ, isEncryption,
          cipherGrid, processedText, prepared, output, plain, calls

vars == <<pc, encryptionKey, inputText, shouldMapItoJ, isEncryption,
          cipherGrid, processedText, prepared, output, plain, calls>>

----------------------------------------------------------------------------
(* Characters and string literals *)

UpperCase == <<"A","B","C","D","E","F","G","H","I","J","K","L","M",
               "N","O","P","Q","R","S","T","U","V","W","X","Y","Z">>

LowerCase == <<"a","b","c","d","e","f","g","h","i","j","k","l","m",
               "n","o","p","q","r","s","t","u","v","w","x","y","z">>

\* ASCII code of a character written as a one-character string.
Ord(c) ==
    IF \E i \in 1..26 : UpperCase[i] = c
    THEN 64 + (CHOOSE i \in 1..26 : UpperCase[i] = c)
    ELSE IF \E i \in 1..26 : LowerCase[i] = c
    THEN 96 + (CHOOSE i \in 1..26 : LowerCase[i] = c)
    ELSE IF c = " " THEN 32
    ELSE 48 + (CHOOSE d \in 0..9 : ToString(d) = c)

\* A string literal, written as the sequence of its characters.
Str(s) == [i \in 1..Len(s) |-> Ord(s[i])]

GRID_SIZE == 5
GRID_TOTAL_CELLS == GRID_SIZE * GRID_SIZE
DEFAULT_KEY == Str(<<"K","E","Y","W","O","R","D">>)
PADDING_CHAR == Ord("X")
FIRST_LETTER == Ord("A")
LAST_LETTER == Ord("Z")
ENCRYPT_DIRECTION == 1
DECRYPT_DIRECTION == -1
ALPHABET == Str(UpperCase)

\* The character literals 'I', 'J' and 'Q' of the code.
CHAR_I == Ord("I")
CHAR_J == Ord("J")
CHAR_Q == Ord("Q")

\* std::toupper in the "C" locale, on an unsigned char.
toupper(c) == IF c >= 97 /\ c <= 122 THEN c - 32 ELSE c

\* The % of C++ on int: the quotient truncates toward zero, so the result
\* has the sign of the dividend.
CMod(a, n) == IF a >= 0 THEN a % n ELSE -((-a) % n)

\* std::string::find(ch) != npos
Contains(s, ch) == \E i \in 1..Len(s) : s[i] = ch

----------------------------------------------------------------------------
(* buildCipherGrid *)

\* Faulty variant of extractUnique: the test "not already present" is left
\* out, every permitted letter is pushed.
RECURSIVE extractUnique_NoDedup(_, _, _, _)
extractUnique_NoDedup(stream, i, mapItoJ, uniqueCharacters) ==
    IF i > Len(stream) THEN uniqueCharacters
    ELSE LET uppercaseChar == toupper(stream[i]) IN
         IF uppercaseChar < FIRST_LETTER \/ uppercaseChar > LAST_LETTER
         THEN extractUnique_NoDedup(stream, i + 1, mapItoJ, uniqueCharacters)
         ELSE IF (uppercaseChar = CHAR_J /\ mapItoJ)
                 \/ (uppercaseChar = CHAR_Q /\ ~mapItoJ)
         THEN extractUnique_NoDedup(stream, i + 1, mapItoJ, uniqueCharacters)
         ELSE extractUnique_NoDedup(stream, i + 1, mapItoJ,
                                    Append(uniqueCharacters, uppercaseChar))

\* The loop of lines 271-294 over the characters i..Len(stream) of the key
\* with the alphabet appended; uniqueCharacters is the accumulator.
RECURSIVE extractUnique(_, _, _, _)
extractUnique(stream, i, mapItoJ, uniqueCharacters) ==
    IF i > Len(stream) THEN uniqueCharacters
    ELSE LET uppercaseChar == toupper(stream[i]) IN
         IF uppercaseChar < FIRST_LETTER \/ uppercaseChar > LAST_LETTER
         THEN extractUnique(stream, i + 1, mapItoJ, uniqueCharacters)
         ELSE IF (uppercaseChar = CHAR_J /\ mapItoJ)
                 \/ (uppercaseChar = CHAR_Q /\ ~mapItoJ)
         THEN extractUnique(stream, i + 1, mapItoJ, uniqueCharacters)
         ELSE IF ~Contains(uniqueCharacters, uppercaseChar)
         THEN extractUnique(stream, i + 1, mapItoJ,
                            Append(uniqueCharacters, uppercaseChar))
         ELSE extractUnique(stream, i + 1, mapItoJ, uniqueCharacters)

\* Faulty variant of fillGrid: the two indices are exchanged, the grid is
\* filled column by column.
fillGrid_ColumnMajor(uniqueCharacters) ==
    [row \in 0..(GRID_SIZE - 1) |->
        [column \in 0..(GRID_SIZE - 1) |->
            LET index == column * GRID_SIZE + row
            IN  IF index < Len(uniqueCharacters)
                THEN uniqueCharacters[index + 1] ELSE 0]]

\* Lines 297-301: cell [index / 5][index % 5] takes uniqueCharacters[index]
\* for every index below GRID_TOTAL_CELLS.  uniqueCharacters[size()] is the
\* terminating '\0' of the std::string.
fillGrid(uniqueCharacters) ==
    [row \in 0..(GRID_SIZE - 1) |->
        [column \in 0..(GRID_SIZE - 1) |->
            LET index == row * GRID_SIZE + column
            IN  IF index < Len(uniqueCharacters)
                THEN uniqueCharacters[index + 1] ELSE 0]]

effectiveKey(key) == IF key = <<>> THEN DEFAULT_KEY ELSE key

\* Faulty variant of buildCipherGrid: the alphabet is not appended to the key.
buildCipherGrid_NoAlphabet(key, mapItoJ) ==
    fillGrid(extractUnique(effectiveKey(key), 1, mapItoJ, <<>>))

buildCipherGrid(key, mapItoJ) ==
    fillGrid(extractUnique(effectiveKey(key) \o ALPHABET, 1, mapItoJ, <<>>))

----------------------------------------------------------------------------
(* normalizeAndPrepareText *)

\* Faulty variant of clear: the text of the call before is kept.
clear_Kept(text) == text

\* processedText.clear()
clear(text) == <<>>

\* Faulty variant of filterLetters: a J is pushed as it is.
RECURSIVE filterLetters_KeepJ(_, _, _, _)
filterLetters_KeepJ(text, i, mapItoJ, acc) ==
    IF i > Len(text) THEN acc
    ELSE LET uppercaseChar == toupper(text[i]) IN
         IF uppercaseChar < FIRST_LETTER \/ uppercaseChar > LAST_LETTER
         THEN filterLetters_KeepJ(text, i + 1, mapItoJ, acc)
         ELSE IF uppercaseChar = CHAR_Q /\ ~mapItoJ
         THEN filterLetters_KeepJ(text, i + 1, mapItoJ, acc)
         ELSE filterLetters_KeepJ(text, i + 1, mapItoJ, Append(acc, uppercaseChar))

\* Faulty variant of filterLetters: a Q is pushed under either mode.
RECURSIVE filterLetters_KeepQ(_, _, _, _)
filterLetters_KeepQ(text, i, mapItoJ, acc) ==
    IF i > Len(text) THEN acc
    ELSE LET uppercaseChar == toupper(text[i]) IN
         IF uppercaseChar < FIRST_LETTER \/ uppercaseChar > LAST_LETTER
         THEN filterLetters_KeepQ(text, i + 1, mapItoJ, acc)
         ELSE IF uppercaseChar = CHAR_J /\ mapItoJ
         THEN filterLetters_KeepQ(text, i + 1, mapItoJ, Append(acc, CHAR_I))
         ELSE filterLetters_KeepQ(text, i + 1, mapItoJ, Append(acc, uppercaseChar))

\* The loop of lines 191-213, pushing onto processedText.
RECURSIVE filterLetters(_, _, _, _)
filterLetters(text, i, mapItoJ, acc) ==
    IF i > Len(text) THEN acc
    ELSE LET uppercaseChar == toupper(text[i]) IN
         IF uppercaseChar < FIRST_LETTER \/ uppercaseChar > LAST_LETTER
         THEN filterLetters(text, i + 1, mapItoJ, acc)
         ELSE IF uppercaseChar = CHAR_J /\ mapItoJ
         THEN filterLetters(text, i + 1, mapItoJ, Append(acc, CHAR_I))
         ELSE IF uppercaseChar = CHAR_Q /\ ~mapItoJ
         THEN filterLetters(text, i + 1, mapItoJ, acc)
         ELSE filterLetters(text, i + 1, mapItoJ, Append(acc, uppercaseChar))

\* Faulty variant of formDigraphPairs: no padding letter between two equal
\* letters.
RECURSIVE formDigraphPairs_NoPadding(_, _, _)
formDigraphPairs_NoPadding(text, index, digraphPairs) ==
    IF ~(index < Len(text)) THEN digraphPairs
    ELSE LET first == Append(digraphPairs, text[index + 1])
             next  == IF index + 1 < Len(text)
                      THEN Append(first, text[index + 2])
                      ELSE first
         IN  formDigraphPairs_NoPadding(text, index + 2, next)

\* The loop of lines 221-234; index is the 0-based index of the code.
RECURSIVE formDigraphPairs(_, _, _)
formDigraphPairs(text, index, digraphPairs) ==
    IF ~(index < Len(text)) THEN digraphPairs
    ELSE LET first == Append(digraphPairs, text[index + 1])
             next  == IF index + 1 < Len(text)
                      THEN LET padded == IF text[index + 1] = text[index + 2]
                                         THEN Append(first, PADDING_CHAR)
                                         ELSE first
                           IN  Append(padded, text[index + 2])
                      ELSE first
         IN  formDigraphPairs(text, index + 2, next)

\* Faulty variant of padToEven: the parity test is inverted.
padToEven_Inverted(text) ==
    IF Len(text) % 2 = 0 THEN Append(text, PADDING_CHAR) ELSE text

\* Lines 240-243.
padToEven(text) ==
    IF Len(text) % 2 = 1 THEN Append(text, PADDING_CHAR) ELSE text

\* Faulty variant of normalizeAndPrepareText: the digraph loop runs for
\* decryption too.
normalizeAndPrepareText_AlwaysPairs(old, text, mapItoJ, forEncryption) ==
    padToEven(formDigraphPairs(filterLetters(text, 1, mapItoJ, clear(old)),
                               0, <<>>))

normalizeAndPrepareText(old, text, mapItoJ, forEncryption) ==
    LET filtered == filterLetters(text, 1, mapItoJ, clear(old))
        paired   == IF forEncryption
                    THEN formDigraphPairs(filtered, 0, <<>>)
                    ELSE filtered
    IN  padToEven(paired)

----------------------------------------------------------------------------
(* transformDigraphPairs *)

\* Row-major scan of the grid; the first hit wins.
findCharacterPosition(grid, character) ==
    LET hits == {i \in 0..(GRID_TOTAL_CELLS - 1) :
                    grid[i \div GRID_SIZE][i % GRID_SIZE] = character}
    IN  IF hits = {} THEN [found |-> FALSE, column |-> 0, row |-> 0]
        ELSE LET i == CHOOSE h \in hits : \A k \in hits : h <= k
             IN  [found |-> TRUE, column |-> i % GRID_SIZE,
                  row |-> i \div GRID_SIZE]

getCharacterAtPosition(grid, column, row) ==
    LET wrappedColumn == (CMod(column, GRID_SIZE) + GRID_SIZE) % GRID_SIZE
        wrappedRow    == (CMod(row, GRID_SIZE) + GRID_SIZE) % GRID_SIZE
    IN  grid[wrappedRow][wrappedColumn]

\* Faulty variant of transformPair: the row rule shifts right whatever the
\* direction.
transformPair_RowAlwaysRight(grid, a, b, shiftDirection) ==
    IF a.row = b.row
    THEN <<getCharacterAtPosition(grid, a.column + 1, a.row),
           getCharacterAtPosition(grid, b.column + 1, b.row)>>
    ELSE IF a.column = b.column
    THEN <<getCharacterAtPosition(grid, a.column, a.row + shiftDirection),
           getCharacterAtPosition(grid, b.column, b.row + shiftDirection)>>
    ELSE <<getCharacterAtPosition(grid, b.column, a.row),
           getCharacterAtPosition(grid, a.column, b.row)>>

\* Faulty variant of transformPair: the same-column test comes first.
transformPair_ColumnFirst(grid, a, b, shiftDirection) ==
    IF a.column = b.column
    THEN <<getCharacterAtPosition(grid, a.column, a.row + shiftDirection),
           getCharacterAtPosition(grid, b.column, b.row + shiftDirection)>>
    ELSE IF a.row = b.row
    THEN <<getCharacterAtPosition(grid, a.column + shiftDirection, a.row),
           getCharacterAtPosition(grid, b.column + shiftDirection, b.row)>>
    ELSE <<getCharacterAtPosition(grid, b.column, a.row),
           getCharacterAtPosition(grid, a.column, b.row)>>

\* The two letters one digraph contributes (lines 85-102).
transformPair(grid, a, b, shiftDirection) ==
    IF a.row = b.row
    THEN <<getCharacterAtPosition(grid, a.column + shiftDirection, a.row),
           getCharacterAtPosition(grid, b.column + shiftDirection, b.row)>>
    ELSE IF a.column = b.column
    THEN <<getCharacterAtPosition(grid, a.column, a.row + shiftDirection),
           getCharacterAtPosition(grid, b.column, b.row + shiftDirection)>>
    ELSE <<getCharacterAtPosition(grid, b.column, a.row),
           getCharacterAtPosition(grid, a.column, b.row)>>

\* The loop of lines 71-103; index is the 0-based index of the code.
RECURSIVE transformLoop(_, _, _, _, _)
transformLoop(text, grid, shiftDirection, index, transformedText) ==
    IF ~(index + 1 < Len(text)) THEN transformedText
    ELSE LET a == findCharacterPosition(grid, text[index + 1])
             b == findCharacterPosition(grid, text[index + 2])
         IN  IF ~a.found \/ ~b.found
             THEN transformLoop(text, grid, shiftDirection, index + 2,
                                transformedText)
             ELSE transformLoop(text, grid, shiftDirection, index + 2,
                                transformedText
                                  \o transformPair(grid, a, b, shiftDirection))

transformDigraphPairs(text, grid, shiftDirection) ==
    transformLoop(text, grid, shiftDirection, 0, <<>>)

\* The pairs printFormattedOutput writes, in order (lines 118-127).
printedPairs(text) ==
    [k \in 1..(Len(text) \div 2) |-> <<text[2 * k - 1], text[2 * k]>>]

----------------------------------------------------------------------------
(* Inputs *)

MaxTextLen == 3
MaxCalls == 2

BoundedSeq(S, n) == UNION {[1..k -> S] : k \in 0..n}

\* The characters the input texts are made of: letters in both cases, the
\* letters the reduction modes treat specially, the padding letter and a
\* character that is no letter.
TextChars == {Ord("a"), Ord("I"), Ord("J"), Ord("Q"), Ord("X"), Ord(" ")}

HELLO_WORLD == Str(<<"H","E","L","L","O"," ","W","O","R","L","D">>)
SECRETKEY == Str(<<"S","E","C","R","E","T","K","E","Y">>)
PLAYFAIR == Str(<<"P","L","A","Y","F","A","I","R">>)
JAB == Str(<<"J","A","B">>)

NO_LETTERS == Str(<<"1"," ","2">>)
MIXED_KEY == Str(<<"q","1"," ","j","I","x">>)

Keys == {<<>>, SECRETKEY, PLAYFAIR, JAB, NO_LETTERS, MIXED_KEY}

\* Longer texts: the README's session and three texts of two digraphs.
LongTexts == {HELLO_WORLD, Str(<<"a","I","J","X">>), Str(<<"X","a","Q","I">>),
              Str(<<"J","Q","X","a">>)}

Texts == BoundedSeq(TextChars, MaxTextLen) \cup LongTexts

\* The inputs of the calls made on one object that is used again.
ReuseKeys == {<<>>, JAB}

ReuseTexts == {<<>>, Str(<<"a">>), Str(<<"I","J">>), Str(<<"Q","X","X">>),
               Str(<<"a","a","a","Q">>), Str(<<"J"," ","X","i","q">>)}

----------------------------------------------------------------------------
(* The program *)

\* std::array<std::array<char, 5>, 5> cipherGrid{} : every cell is '\0'.
FreshGrid == [row \in 0..(GRID_SIZE - 1) |-> [column \in 0..(GRID_SIZE - 1) |-> 0]]

Init ==
    /\ pc = "start"
    /\ encryptionKey = <<>>
    /\ inputText = <<>>
    /\ shouldMapItoJ = FALSE
    /\ isEncryption = FALSE
    /\ cipherGrid = FreshGrid
    /\ processedText = <<>>
    /\ prepared = <<>>
    /\ output = <<>>
    /\ plain = <<>>
    /\ calls = 0

\* main(): reads the four inputs, constructs the cipher and calls process.
\* The key and the text are drawn from keys and texts.
Main(keys, texts) ==
    /\ pc = "start"
    /\ \E key \in keys, text \in texts, mapItoJ \in BOOLEAN, encryption \in BOOLEAN :
          /\ encryptionKey' = key
          /\ inputText' = text
          /\ shouldMapItoJ' = mapItoJ
          /\ isEncryption' = encryption
    /\ calls' = 1
    /\ pc' = "build"
    /\ UNCHANGED <<cipherGrid, processedText, prepared, output, plain>>

BuildCipherGrid ==
    /\ pc = "build"
    /\ cipherGrid' = buildCipherGrid(encryptionKey, shouldMapItoJ)
    /\ pc' = "normalize"
    /\ UNCHANGED <<encryptionKey, inputText, shouldMapItoJ, isEncryption,
                   processedText, prepared, output, plain, calls>>

\* prepared keeps the sequence this step leaves in processedText.
NormalizeAndPrepareText ==
    /\ pc = "normalize"
    /\ processedText' = normalizeAndPrepareText(processedText, inputText,
                                                shouldMapItoJ, isEncryption)
    /\ prepared' = processedText'
    /\ pc' = "transform"
    /\ UNCHANGED <<encryptionKey, inputText, shouldMapItoJ, isEncryption,
                   cipherGrid, output, plain, calls>>

TransformDigraphPairs ==
    /\ pc = "transform"
    /\ processedText' = transformDigraphPairs(processedText, cipherGrid,
                            IF isEncryption THEN ENCRYPT_DIRECTION
                                            ELSE DECRYPT_DIRECTION)
    /\ pc' = "print"
    /\ UNCHANGED <<encryptionKey, inputText, shouldMapItoJ, isEncryption,
                   cipherGrid, prepared, output, plain, calls>>

PrintFormattedOutput ==
    /\ pc = "print"
    /\ output' = printedPairs(processedText)
    /\ pc' = "done"
    /\ UNCHANGED <<encryptionKey, inputText, shouldMapItoJ, isEncryption,
                   cipherGrid, processedText, prepared, plain, calls>>

\* The letters of the printed pairs, in order.
RECURSIVE Flatten(_)
Flatten(pairs) ==
    IF pairs = <<>> THEN <<>> ELSE Head(pairs) \o Flatten(Tail(pairs))

\* The program is run a second time to decode what the first run printed,
\* with the same key and mapping (the README's decryption session): main()
\* constructs a new cipher.  plain remembers the first run.
DecodeOutput ==
    /\ pc = "done"
    /\ isEncryption
    /\ calls = 1
    /\ plain' = <<[text |-> inputText, prepared |-> prepared]>>
    /\ inputText' = Flatten(output)
    /\ isEncryption' = FALSE
    /\ cipherGrid' = FreshGrid
    /\ processedText' = <<>>
    /\ prepared' = <<>>
    /\ output' = <<>>
    /\ calls' = calls + 1
    /\ pc' = "build"
    /\ UNCHANGED <<encryptionKey, shouldMapItoJ>>

\* process is called again on the same object (the README's API example).
ProcessAgain(keys, texts) ==
    /\ pc = "done"
    /\ calls < MaxCalls
    /\ \E key \in keys, text \in texts, mapItoJ \in BOOLEAN, encryption \in BOOLEAN :
          /\ encryptionKey' = key
          /\ inputText' = text
          /\ shouldMapItoJ' = mapItoJ
          /\ isEncryption' = encryption
    /\ prepared' = <<>>
    /\ output' = <<>>
    /\ plain' = <<>>
    /\ calls' = calls + 1
    /\ pc' = "build"
    /\ UNCHANGED <<cipherGrid, processedText>>

Next ==
    \/ Main(Keys, Texts)
    \/ BuildCipherGrid
    \/ NormalizeAndPrepareText
    \/ TransformDigraphPairs
    \/ PrintFormattedOutput
    \/ DecodeOutput

Spec == Init /\ [][Next]_vars

NextReuse ==
    \/ Main(ReuseKeys, ReuseTexts)
    \/ BuildCipherGrid
    \/ NormalizeAndPrepareText
    \/ TransformDigraphPairs
    \/ PrintFormattedOutput
    \/ ProcessAgain(ReuseKeys, ReuseTexts)

SpecReuse == Init /\ [][NextReuse]_vars

----------------------------------------------------------------------------
(* Vocabulary of the properties *)

\* The grid is built from the end of BuildCipherGrid on.
GridBuilt == pc \in {"normalize", "transform", "print", "done"}

\* processedText holds the prepared sequence from the end of
\* NormalizeAndPrepareText on, and the transformed one after the transform.
TextPrepared == pc \in {"transform", "print", "done"}
Transformed == pc \in {"print", "done"}

Letters == FIRST_LETTER..LAST_LETTER

\* The letter the reduction mode removes: J under MergeJintoI (the flag
\* shouldMapItoJ set), Q under DropQ.
Excluded(mapItoJ) == IF mapItoJ THEN CHAR_J ELSE CHAR_Q

\* The grid read row-major: stream position i (from 0) is the cell at row
\* i / 5, column i % 5.
GridStream ==
    [i \in 1..GRID_TOTAL_CELLS |->
        cipherGrid[(i - 1) \div GRID_SIZE][(i - 1) % GRID_SIZE]]

Range(s) == {s[i] : i \in 1..Len(s)}

UpperCased(s) == [i \in 1..Len(s) |-> toupper(s[i])]

\* s with each element kept at its first occurrence only.
FirstOccurrences(s) ==
    LET keep == {i \in 1..Len(s) : \A j \in 1..(i - 1) : s[j] # s[i]}
    IN  [k \in 1..Cardinality(keep) |->
            s[CHOOSE i \in keep : Cardinality({j \in keep : j < i}) = k - 1]]

----------------------------------------------------------------------------
(* C1 *)

\* C1: for every key (the empty key and keys without a letter included) and
\* both modes, the built grid holds 25 pairwise distinct upper-case letters,
\* exactly the alphabet without the excluded letter; no cell is left unset.
C1_GridUniqueness ==
    GridBuilt =>
        LET stream == GridStream
        IN  /\ \A i \in 1..GRID_TOTAL_CELLS :
                  \A j \in (i + 1)..GRID_TOTAL_CELLS : stream[i] # stream[j]
            /\ Range(stream) = Letters \ {Excluded(shouldMapItoJ)}
            /\ \A i \in 1..GRID_TOTAL_CELLS : stream[i] # 0

C1_Witness ==
    /\ pc = "done"
    /\ encryptionKey = NO_LETTERS
    /\ ~shouldMapItoJ
    /\ Cardinality(Range(GridStream)) = GRID_TOTAL_CELLS
    /\ CHAR_Q \notin Range(GridStream)

----------------------------------------------------------------------------
(* C2 *)

\* The letters of the effective key: upper-cased, letters only, without the
\* excluded letter.
KeyLetters(key, mapItoJ) ==
    SelectSeq(UpperCased(IF key = <<>> THEN DEFAULT_KEY ELSE key),
              LAMBDA c : c \in Letters /\ c # Excluded(mapItoJ))

\* The permitted letters of the alphabet the key does not hold, A to Z.
Remaining(key, mapItoJ) ==
    SelectSeq(ALPHABET,
              LAMBDA c : /\ c # Excluded(mapItoJ)
                         /\ c \notin Range(KeyLetters(key, mapItoJ)))

\* C2: the grid read row-major is the letters of the effective key (the
\* default key KEYWORD for the empty key), upper-cased, without the excluded
\* letter, each at its first occurrence only, followed by the remaining
\* permitted letters in A-to-Z order; for key PLAYFAIR under MergeJintoI the
\* first row is P L A Y F.
C2_GridLayout ==
    GridBuilt =>
        /\ GridStream = FirstOccurrences(KeyLetters(encryptionKey, shouldMapItoJ))
                          \o Remaining(encryptionKey, shouldMapItoJ)
        /\ (encryptionKey = PLAYFAIR /\ shouldMapItoJ) =>
              [column \in 1..GRID_SIZE |-> cipherGrid[0][column - 1]]
                 = Str(<<"P","L","A","Y","F">>)

C2_Witness ==
    /\ pc = "done"
    /\ encryptionKey = PLAYFAIR
    /\ shouldMapItoJ
    /\ SubSeq(GridStream, 1, 7) = Str(<<"P","L","A","Y","F","I","R">>)
    /\ SubSeq(GridStream, 8, 10) = Str(<<"B","C","D">>)

----------------------------------------------------------------------------
(* C3 *)

\* The position in the upper-cased key of its first I or J, 0 when it has none.
FirstIorJ(key) ==
    LET up == UpperCased(key)
        at == {i \in 1..Len(up) : up[i] \in {CHAR_I, CHAR_J}}
    IN  IF at = {} THEN 0 ELSE CHOOSE i \in at : \A j \in at : i <= j

\* C3: under MergeJintoI a J of the key is rewritten to I before the
\* deduplication: when the first I-or-J of the key is a J, the letter I
\* stands in the grid at the stream position of that J (key JAB gives a grid
\* that starts I, A, B).
C3_KeyJRewrittenToI ==
    (GridBuilt /\ shouldMapItoJ /\ FirstIorJ(encryptionKey) # 0
       /\ toupper(encryptionKey[FirstIorJ(encryptionKey)]) = CHAR_J) =>
        LET before == SubSeq(encryptionKey, 1, FirstIorJ(encryptionKey) - 1)
            position == Len(FirstOccurrences(KeyLetters(before, TRUE)))
        IN  /\ GridStream[position + 1] = CHAR_I
            /\ encryptionKey = JAB =>
                  SubSeq(GridStream, 1, 3) = Str(<<"I","A","B">>)

----------------------------------------------------------------------------
(* C4 *)

\* A plaintext of the round-trip law: letters only, of even length, no two
\* equal letters adjacent.
RoundTripText(text) ==
    /\ \A i \in 1..Len(text) : toupper(text[i]) \in Letters
    /\ Len(text) % 2 = 0
    /\ \A i \in 1..(Len(text) - 1) : toupper(text[i]) # toupper(text[i + 1])

\* C4: for every key, mode and plaintext of letters only, of even length and
\* without two equal adjacent letters, decrypting the encryption with the
\* same key and mode yields exactly the sequence prepared for the
\* encryption, padding letters included.
C4_RoundTrip ==
    (pc = "done" /\ plain # <<>> /\ RoundTripText(plain[1].text)) =>
        /\ ~isEncryption
        /\ processedText = plain[1].prepared
        /\ plain[1].prepared
             = normalizeAndPrepareText(<<>>, plain[1].text, shouldMapItoJ, TRUE)

\* A plaintext I J under MergeJintoI: the two letters collide after the
\* rewrite, the prepared sequence I X I X comes back from the decryption.
C4_Witness ==
    /\ pc = "done"
    /\ plain # <<>>
    /\ RoundTripText(plain[1].text)
    /\ Len(plain[1].text) = 2
    /\ shouldMapItoJ
    /\ plain[1].prepared = Str(<<"I","X","I","X">>)
    /\ inputText # plain[1].prepared
    /\ processedText = plain[1].prepared

----------------------------------------------------------------------------
(* C5 *)

\* The filtered letters of a text: upper-cased, letters only, Q removed under
\* DropQ, J replaced by I (in place) under MergeJintoI.
Filtered(text, mapItoJ) ==
    LET kept == SelectSeq(UpperCased(text),
                          LAMBDA c : c \in Letters /\ ~(c = CHAR_Q /\ ~mapItoJ))
    IN  [i \in 1..Len(kept) |->
            IF kept[i] = CHAR_J /\ mapItoJ THEN CHAR_I ELSE kept[i]]

\* The one-pass scan: a pair of different letters is emitted and consumed; of
\* a pair of equal letters the first is emitted with the padding letter and
\* the second starts the next pair; a final single letter takes one padding
\* letter.
RECURSIVE OnePassScan(_)
OnePassScan(s) ==
    IF s = <<>> THEN <<>>
    ELSE IF Len(s) = 1 THEN <<s[1], PADDING_CHAR>>
    ELSE IF s[1] # s[2] THEN <<s[1], s[2]>> \o OnePassScan(Tail(Tail(s)))
    ELSE <<s[1], PADDING_CHAR>> \o OnePassScan(Tail(s))

\* C5: the sequence prepared for encryption is the one-pass scan of the
\* filtered letters, in which the second of two equal letters starts the
\* next pair and is compared with its own successor.
C5_OnePassScan ==
    (TextPrepared /\ isEncryption) =>
        prepared = OnePassScan(Filtered(inputText, shouldMapItoJ))

----------------------------------------------------------------------------
(* C6 *)

\* C6: under MergeJintoI the letter J, under DropQ the letter Q, is in no
\* grid cell, at no position of the normalized text and at no position of
\* the output of process; in the normalized text a J is replaced by I in
\* place under MergeJintoI and a Q is removed under DropQ.
C6_ModeExclusivity ==
    LET excluded == Excluded(shouldMapItoJ)
    IN  /\ GridBuilt => excluded \notin Range(GridStream)
        /\ TextPrepared =>
              /\ excluded \notin Range(prepared)
              /\ excluded \notin Range(processedText)
              /\ prepared =
                    LET filtered == Filtered(inputText, shouldMapItoJ)
                    IN  padToEven(IF isEncryption
                                  THEN formDigraphPairs(filtered, 0, <<>>)
                                  ELSE filtered)
        /\ \A k \in 1..Len(output) : excluded \notin Range(output[k])

C6_Witness ==
    /\ pc = "done"
    /\ shouldMapItoJ
    /\ encryptionKey = MIXED_KEY
    /\ inputText = Str(<<"a","J","Q">>)
    /\ prepared = Str(<<"A","I","Q","X">>)
    /\ output # <<>>

----------------------------------------------------------------------------
(* C7 *)

\* A shifted index brought back into 0..4: -1 maps to 4, 5 maps to 0.
Wrap(i) == IF i = -1 THEN GRID_SIZE - 1 ELSE IF i = GRID_SIZE THEN 0 ELSE i

RowOf(character) ==
    CHOOSE row \in 0..(GRID_SIZE - 1) :
        \E column \in 0..(GRID_SIZE - 1) : cipherGrid[row][column] = character

ColumnOf(character) ==
    CHOOSE column \in 0..(GRID_SIZE - 1) :
        \E row \in 0..(GRID_SIZE - 1) : cipherGrid[row][column] = character

\* The two letters the rule gives for the digraph (a, b) and direction d.
RuleOutput(a, b, d) ==
    LET rowA == RowOf(a)
        colA == ColumnOf(a)
        rowB == RowOf(b)
        colB == ColumnOf(b)
    IN  IF rowA = rowB
        THEN <<cipherGrid[rowA][Wrap(colA + d)], cipherGrid[rowB][Wrap(colB + d)]>>
        ELSE IF colA = colB
        THEN <<cipherGrid[Wrap(rowA + d)][colA], cipherGrid[Wrap(rowB + d)][colB]>>
        ELSE <<cipherGrid[rowA][colB], cipherGrid[rowB][colA]>>

\* C7: every digraph (a, b) of the prepared sequence is replaced by the
\* cells one column over by d when a and b share a row, else the cells one
\* row over by d when they share a column, else the cells (colB, rowA) and
\* (colA, rowB); shifted indices wrap modulo 5 and the same-row test comes
\* first.
C7_TransformRule ==
    Transformed =>
        /\ Len(processedText) = Len(prepared)
        /\ \A k \in 1..(Len(prepared) \div 2) :
              <<processedText[2 * k - 1], processedText[2 * k]>>
                 = RuleOutput(prepared[2 * k - 1], prepared[2 * k],
                              IF isEncryption THEN 1 ELSE -1)

\* Decrypting the digraph of two equal letters of column 0: the row rule is
\* taken, not the column rule, and index -1 wraps to column 4.
C7_Witness ==
    /\ pc = "done"
    /\ ~isEncryption
    /\ prepared = Str(<<"A","A">>)
    /\ cipherGrid[0][0] = Ord("A")
    /\ processedText = <<cipherGrid[0][4], cipherGrid[0][4]>>

----------------------------------------------------------------------------
(* C8 *)

\* The README's session: HELLO WORLD encrypted with key SECRETKEY and the
\* I/J mapping on, in the first run of the program.
ReadmeSession ==
    /\ pc = "done"
    /\ calls = 1
    /\ encryptionKey = SECRETKEY
    /\ inputText = HELLO_WORLD
    /\ shouldMapItoJ
    /\ isEncryption

Pairs(s) == [k \in 1..(Len(s) \div 2) |-> <<s[2 * k - 1], s[2 * k]>>]

----------------------------------------------------------------------------
(* C9 *)

Rows(r0, r1, r2, r3, r4) ==
    LET rows == <<Str(r0), Str(r1), Str(r2), Str(r3), Str(r4)>>
    IN  [row \in 0..(GRID_SIZE - 1) |->
            [column \in 0..(GRID_SIZE - 1) |-> rows[row + 1][column + 1]]]

----------------------------------------------------------------------------
(* C10 *)

\* What the call with the current arguments leaves in processedText on a
\* freshly constructed object.
FreshPrepared ==
    normalizeAndPrepareText(<<>>, inputText, shouldMapItoJ, isEncryption)

FreshResult ==
    transformDigraphPairs(FreshPrepared,
                          buildCipherGrid(encryptionKey, shouldMapItoJ),
                          IF isEncryption THEN ENCRYPT_DIRECTION
                                          ELSE DECRYPT_DIRECTION)

\* C10: whatever calls were made before on the same object, the grid and the
\* output a call leaves are those it leaves on a freshly constructed object;
\* no cell and no letter of an earlier call survives.
C10_NothingAcrossCalls ==
    /\ GridBuilt => cipherGrid = buildCipherGrid(encryptionKey, shouldMapItoJ)
    /\ pc = "transform" => processedText = FreshPrepared
    /\ Transformed => processedText = FreshResult
    /\ pc = "done" => output = Pairs(FreshResult)

\* A second call on an object whose first call left a longer text behind.
C10_Witness ==
    /\ pc = "done"
    /\ calls = 2
    /\ inputText = Str(<<"a">>)
    /\ isEncryption
    /\ Len(processedText) = 2
    /\ output = <<processedText>>

----------------------------------------------------------------------------
(* C11 *)

\* The text holds no letter the mode permits: every character is no letter,
\* or is a Q under DropQ.
NoPermittedLetter(text, mapItoJ) ==
    \A i \in 1..Len(text) :
        \/ toupper(text[i]) \notin Letters
        \/ (toupper(text[i]) = CHAR_Q /\ ~mapItoJ)

\* C11: for every key, mode and direction, the empty text and every text
\* without a letter the mode permits give the empty prepared sequence and
\* the empty output: no padding letter is added to nothing.
C11_EmptyInput ==
    NoPermittedLetter(inputText, shouldMapItoJ) =>
        /\ TextPrepared => prepared = <<>>
        /\ TextPrepared => processedText = <<>>
        /\ pc = "done" => output = <<>>

\* A text of Q and a space under DropQ.
C11_Witness ==
    /\ pc = "done"
    /\ ~shouldMapItoJ
    /\ inputText = Str(<<"Q"," ","Q">>)
    /\ prepared = <<>>
    /\ processedText = <<>>
    /\ output = <<>>

----------------------------------------------------------------------------
(* C12 *)

\* C12: the sequence prepared for decryption is the filtered letter sequence
\* unchanged, with exactly one padding letter appended when and only when
\* its length is odd; nothing is inserted between equal adjacent letters and
\* the result has even length.
C12_DecryptionPreparation ==
    (TextPrepared /\ ~isEncryption) =>
        LET filtered == Filtered(inputText, shouldMapItoJ)
        IN  /\ Len(filtered) % 2 = 1 =>
                  prepared = filtered \o <<PADDING_CHAR>>
            /\ Len(filtered) % 2 = 0 => prepared = filtered
            /\ Len(prepared) % 2 = 0

\* Three equal letters to decrypt: they stay adjacent and take one trailing
\* padding letter.
C12_Witness ==
    /\ pc = "done"
    /\ ~isEncryption
    /\ inputText = Str(<<"I","I","I">>)
    /\ prepared = Str(<<"I","I","I","X">>)

----------------------------------------------------------------------------
(* C13 *)

\* C13: within process every letter of the prepared sequence, the padding
\* letter included, stands in the grid built with the same mode, so no
\* digraph is skipped: the output has exactly the length of the prepared
\* sequence, which is even.
C13_NoDigraphSkipped ==
    /\ TextPrepared =>
          /\ \A i \in 1..Len(prepared) : prepared[i] \in Range(GridStream)
          /\ Len(prepared) % 2 = 0
    /\ Transformed => Len(processedText) = Len(prepared)
    /\ pc = "done" => 2 * Len(output) = Len(prepared)

\* Under DropQ the text Q J Q prepares as J X: the J and the padding letter
\* are both found in the grid and one digraph comes out.
C13_Witness ==
    /\ pc = "done"
    /\ ~shouldMapItoJ
    /\ isEncryption
    /\ inputText = Str(<<"Q","J","Q">>)
    /\ prepared = Str(<<"J","X">>)
    /\ Len(processedText) = 2
    /\ Len(output) = 1

----------------------------------------------------------------------------
(* C14 *)

\* C14: for a text without the padding letter X, no digraph of the sequence
\* prepared for encryption (positions 2k and 2k+1, from 0) is made of two
\* equal letters.
C14_NoEqualDigraph ==
    (TextPrepared /\ isEncryption
       /\ PADDING_CHAR \notin Range(UpperCased(inputText))) =>
        \A k \in 1..(Len(prepared) \div 2) :
            prepared[2 * k - 1] # prepared[2 * k]

====
